---- MODULE Spec2Model ----
(***************************************************************************)
(* Root password rotation (rotation.py): the construction of a Rotation    *)
(* object (history snapshot, password generation), the coordinator run()   *)
(* that starts one thread per host, joins them and sends the report, and   *)
(* the per-host worker set_root_password() with its retry loop.            *)
(*                                                                         *)
(* Environment assumptions: the configuration, the key files and the mail  *)
(* templates are present and well formed; the remote transport, the        *)
(* database and the SMTP relay may fail at every call.  The host list      *)
(* holds each target host once.                                            *)
(***************************************************************************)
EXTENDS Integers, Sequences, FiniteSets, TLC

\* ------------------------------------------------------------------ bounds
\* Number of hosts in the universe the hosts file draws from.
NumHosts == 2
\* _config['ssh']['max_attempts']
max_attempts == 2
\* _config['linux']['password_length']
password_length == 1
\* Size of the character set the generator draws from (66 in the program).
AlphabetSize == 2

Hosts == 1..NumHosts

\* string.ascii_letters + string.digits + '!@#$', as character codes
characters == 1..AlphabetSize

StringsOneLonger(n) == [1..(n + 1) -> characters]

\* All strings of a given length over the alphabet.
Strings(n) == [1..n -> characters]

\* ------------------------------------------------------- encryption shim
\* credential_encrypter: the stored form of a secret.
credential_encrypter(client_secret) == [enc |-> TRUE, txt |-> client_secret]

\* bytes.fromhex / private_key.decrypt succeed only on a ciphertext.
Decryptable(cell) == cell.enc

\* credential_decrypter: the plaintext of a ciphertext.
credential_decrypter(cell) == cell.txt

\* A table cell holding a value that was inserted without encryption.
PlainCell(s) == [enc |-> FALSE, txt |-> s]

VARIABLES
    cpc,                \* position of the main thread
    hostnames_list,     \* the lines of the hosts file
    old_passwords,      \* self.old_passwords (empty function when the query failed)
    root_pass_history_list, \* the history snapshot of generate_random_password
    random_pass,        \* the candidate of the current loop iteration
    new_password_generated, \* self.new_password_generated
    credential_store,   \* root_password table: latest stored credential per host
    history_store,      \* root_pass_history table: set of rows
    remote_password,    \* the root password each host currently accepts
    started,            \* number of threads started by run()
    joined,             \* number of threads joined by run()
    pc,                 \* position of each worker thread
    attempt,            \* loop variable of set_root_password
    connects,           \* calls of ssh.connect with the stored credential
    ssh_connected,      \* whether such a call has ever succeeded
    verify_result,      \* value returned by verify_server_login
    alerts,             \* calls of send_alert_mail
    password_change_success_host_list,
    password_change_fail_host_list,
    report_calls,       \* calls of send_mail
    report_failed       \* whether the report failed at the SMTP relay

vars == << cpc, hostnames_list, old_passwords, root_pass_history_list, random_pass,
           new_password_generated, credential_store, history_store, remote_password,
           started, joined, pc, attempt, connects, ssh_connected, verify_result,
           alerts, password_change_success_host_list,
           password_change_fail_host_list, report_calls, report_failed >>

ctorVars == << old_passwords, root_pass_history_list, random_pass,
               new_password_generated >>
storeVars == << credential_store, history_store, remote_password >>
listVars == << password_change_success_host_list, password_change_fail_host_list >>
mailVars == << alerts, report_calls, report_failed >>
coordVars == << cpc, hostnames_list, started, joined >>
workerVars == << pc, attempt, connects, ssh_connected, verify_result >>

\* The value of an unset password field.
NoPassword == << >>

\* Thread indices: thread i handles hostnames_list[i].
Threads == 1..Len(hostnames_list)

\* The hosts file: a duplicate-free list of hosts.
HostLists == { [i \in 1..n |-> i] : n \in 0..NumHosts }

\* The root password the fleet holds before the batch.
OldRootPassword == [i \in 1..password_length |-> 1]

\* Elements of a sequence.
Range(s) == { s[i] : i \in DOMAIN s }

\* Number of occurrences of x in a sequence.
Count(x, s) == Cardinality({ i \in DOMAIN s : s[i] = x })

\* The values line 81 lets generate_random_password return.
GenerateResults(history) == { c \in Strings(password_length) : c \notin history }


\* ---------------------------------------------------------- construction
\* Rows a history table may hold before the batch: encrypted rows for any
\* set of earlier passwords, and possibly one row that is not a ciphertext.
LegacyRow(s) == [hostname |-> 0, password |-> credential_encrypter(s)]
CorruptRow == [hostname |-> 0, password |-> PlainCell(OldRootPassword)]
InitialHistories ==
    { { LegacyRow(s) : s \in S } \cup extra :
        S \in SUBSET Strings(password_length), extra \in { {}, {CorruptRow} } }

\* State shared by both initial conditions: nothing started, nothing sent.
Quiescent ==
    /\ hostnames_list \in HostLists
    /\ credential_store = [h \in Hosts |-> credential_encrypter(OldRootPassword)]
    /\ remote_password = [h \in Hosts |-> OldRootPassword]
    /\ started = 0
    /\ joined = 0
    /\ pc = [i \in Hosts |-> "idle"]
    /\ attempt = [i \in Hosts |-> 0]
    /\ connects = [i \in Hosts |-> 0]
    /\ ssh_connected = [i \in Hosts |-> FALSE]
    /\ verify_result = [i \in Hosts |-> "none"]
    /\ alerts = [i \in Hosts |-> 0]
    /\ password_change_success_host_list = << >>
    /\ password_change_fail_host_list = << >>
    /\ report_calls = 0
    /\ report_failed = FALSE

\* Before Rotation(): nothing of the constructor has run.
InitConstruct ==
    /\ Quiescent
    /\ cpc = "configure"
    /\ history_store \in InitialHistories
    /\ old_passwords = << >>
    /\ root_pass_history_list = {}
    /\ random_pass = NoPassword
    /\ new_password_generated = NoPassword

\* Lines 28-44 (and the import of common_functions): read the configuration
\* and decrypt the database and ssh credentials with the private key.  A
\* missing configuration entry or key file raises and the program ends.
Configure ==
    /\ cpc = "configure"
    /\ \E ok \in BOOLEAN : cpc' = IF ok THEN "get_old_password" ELSE "aborted"
    /\ UNCHANGED << hostnames_list, started, joined, ctorVars, storeVars, workerVars,
                    listVars, mailVars >>

\* get_old_password (line 45): the stored credential of every host, or None
\* (modelled as the empty mapping) when the query fails.
GetOldPassword ==
    /\ cpc = "get_old_password"
    /\ \E ok \in BOOLEAN :
         old_passwords' = IF ok THEN credential_store ELSE << >>
    /\ cpc' = "get_password_history"
    /\ UNCHANGED << hostnames_list, started, joined, root_pass_history_list, random_pass,
                    new_password_generated, storeVars, workerVars, listVars, mailVars >>

\* get_password_history (line 78): the decrypted passwords of all rows.  A
\* failed query or a row that does not decrypt makes it return None, and the
\* membership test of line 81 then raises: the constructor aborts.
GetPasswordHistory ==
    /\ cpc = "get_password_history"
    /\ \E ok \in BOOLEAN :
         IF ok /\ \A row \in history_store : Decryptable(row.password)
         THEN /\ root_pass_history_list' =
                    { credential_decrypter(row.password) : row \in history_store }
              /\ cpc' = "draw"
         ELSE /\ cpc' = "aborted"
              /\ UNCHANGED root_pass_history_list
    /\ UNCHANGED << hostnames_list, started, joined, old_passwords, random_pass,
                    new_password_generated, storeVars, workerVars, listVars, mailVars >>

\* Line 80: one candidate of the requested length.
DrawCandidate ==
    /\ cpc = "draw"
    /\ \E c \in Strings(password_length) : random_pass' = c
    /\ cpc' = "check"
    /\ UNCHANGED << hostnames_list, started, joined, old_passwords, root_pass_history_list,
                    new_password_generated, storeVars, workerVars, listVars, mailVars >>

\* Whether the loop of generate_random_password returns the candidate.
AcceptsCandidateIfUsed(candidate, history) == candidate \in history
AcceptsCandidateAnyway(candidate, history) == TRUE
AcceptsCandidate(candidate, history) == candidate \notin history

\* Lines 81-82 and 46: return the candidate, or loop.
CheckCandidate ==
    /\ cpc = "check"
    /\ IF AcceptsCandidate(random_pass, root_pass_history_list)
       THEN /\ new_password_generated' = random_pass
            /\ cpc' = "spawn"
       ELSE /\ cpc' = "draw"
            /\ UNCHANGED new_password_generated
    /\ UNCHANGED << hostnames_list, started, joined, old_passwords, root_pass_history_list,
                    random_pass, storeVars, workerVars, listVars, mailVars >>

NextConstruct ==
    \/ Configure
    \/ GetOldPassword
    \/ GetPasswordHistory
    \/ DrawCandidate
    \/ CheckCandidate

SpecConstruct == InitConstruct /\ [][NextConstruct]_vars

\* A draw of line 80 that yields a string the snapshot does not hold.
DrawUnused ==
    /\ DrawCandidate
    /\ random_pass' \notin root_pass_history_list

\* The constructor keeps running and its queries return; secrets.choice draws
\* uniformly, so a loop that draws again and again draws an unused string at
\* some point when there is one.
FairnessConstruct ==
    /\ WF_vars(Configure)
    /\ WF_vars(GetOldPassword)
    /\ WF_vars(GetPasswordHistory)
    /\ WF_vars(DrawCandidate)
    /\ WF_vars(CheckCandidate)
    /\ SF_vars(DrawUnused)

SpecConstructFair == InitConstruct /\ [][NextConstruct]_vars /\ FairnessConstruct

\* ------------------------------------------------------- after Rotation()
\* The state run() starts in: the fleet holds the previous batch's password,
\* recorded in both stores; the stored credentials were read or the query
\* failed; the generated password is one the loop can return (the worker
\* code only passes it on and compares it, so one value stands for all).
Init ==
    /\ Quiescent
    /\ cpc = "spawn"
    /\ history_store = { LegacyRow(OldRootPassword) }
    /\ old_passwords \in { << >>, credential_store }
    /\ root_pass_history_list = { OldRootPassword }
    /\ new_password_generated =
          CHOOSE c \in GenerateResults(root_pass_history_list) : TRUE
    /\ random_pass = new_password_generated


\* ------------------------------------------------------------------ run()
\* Lines 55-59: start the thread of the next host.
StartThreadFirstHostAgain ==
    /\ cpc = "spawn"
    /\ started < Len(hostnames_list)
    /\ started' = started + 1
    /\ pc' = [pc EXCEPT ![1] = "connect"]
    /\ attempt' = [attempt EXCEPT ![1] = 1]
    /\ UNCHANGED << cpc, hostnames_list, joined, connects, ssh_connected, verify_result,
                    ctorVars, storeVars, listVars, mailVars >>
StartThreadAfterAbort ==
    /\ cpc \in { "spawn", "aborted" }
    /\ started < Len(hostnames_list)
    /\ started' = started + 1
    /\ pc' = [pc EXCEPT ![started + 1] = "connect"]
    /\ attempt' = [attempt EXCEPT ![started + 1] = 1]
    /\ UNCHANGED << cpc, hostnames_list, joined, connects, ssh_connected, verify_result,
                    ctorVars, storeVars, listVars, mailVars >>
StartThreadNoStart ==
    /\ cpc = "spawn"
    /\ started < Len(hostnames_list)
    /\ started' = started + 1
    /\ UNCHANGED << cpc, hostnames_list, joined, workerVars,
                    ctorVars, storeVars, listVars, mailVars >>
StartThread ==
    /\ cpc = "spawn"
    /\ started < Len(hostnames_list)
    /\ started' = started + 1
    /\ pc' = [pc EXCEPT ![started + 1] = "connect"]
    /\ attempt' = [attempt EXCEPT ![started + 1] = 1]
    /\ UNCHANGED << cpc, hostnames_list, joined, connects, ssh_connected, verify_result,
                    ctorVars, storeVars, listVars, mailVars >>

\* Line 59 -> 61: the first loop has started every thread.
BeginJoin ==
    /\ cpc = "spawn"
    /\ started = Len(hostnames_list)
    /\ cpc' = "join"
    /\ UNCHANGED << hostnames_list, started, joined, ctorVars, storeVars, workerVars,
                    listVars, mailVars >>

\* Whether thread.join() returns for thread i.
JoinReturnsEarly(i) == TRUE
JoinReturns(i) == pc[i] = "done"

\* Lines 61-62: join the next thread, in the order of the list.
JoinThread ==
    /\ cpc = "join"
    /\ joined < Len(hostnames_list)
    /\ JoinReturns(joined + 1)
    /\ joined' = joined + 1
    /\ UNCHANGED << cpc, hostnames_list, started, ctorVars, storeVars, workerVars,
                    listVars, mailVars >>

\* Line 62 -> 63: every thread has been joined, send_mail is called.
EndJoin ==
    /\ cpc = "join"
    /\ joined = Len(hostnames_list)
    /\ cpc' = "send_mail"
    /\ UNCHANGED << hostnames_list, started, joined, ctorVars, storeVars, workerVars,
                    listVars, mailVars >>

\* send_mail (lines 152-188): one report; an SMTP failure is logged.
SendMail ==
    /\ cpc = "send_mail"
    /\ report_calls' = report_calls + 1
    /\ \E smtp_ok \in BOOLEAN : report_failed' = ~smtp_ok
    /\ cpc' = "done"
    /\ UNCHANGED << hostnames_list, started, joined, ctorVars, storeVars, workerVars,
                    listVars, alerts >>

\* ---------------------------------------------------- set_root_password
\* Lines 133-148: the handler of an exception raised at attempt[i].
\* With attempts left the worker goes on to send_alert_mail; on the last
\* attempt the host is appended to the failure list and the loop ends.
ExceptionHandlerAlertsOnLast(i) ==
    IF attempt[i] < max_attempts
    THEN /\ pc' = [pc EXCEPT ![i] = "alert"]
         /\ UNCHANGED password_change_fail_host_list
    ELSE /\ pc' = [pc EXCEPT ![i] = "alert"]
         /\ password_change_fail_host_list' =
               Append(password_change_fail_host_list, hostnames_list[i])
ExceptionHandlerDropsHost(i) ==
    IF attempt[i] < max_attempts
    THEN /\ pc' = [pc EXCEPT ![i] = "alert"]
         /\ UNCHANGED password_change_fail_host_list
    ELSE /\ pc' = [pc EXCEPT ![i] = "done"]
         /\ UNCHANGED password_change_fail_host_list
ExceptionHandlerOffByOne(i) ==
    IF attempt[i] < max_attempts - 1
    THEN /\ pc' = [pc EXCEPT ![i] = "alert"]
         /\ UNCHANGED password_change_fail_host_list
    ELSE /\ pc' = [pc EXCEPT ![i] = "done"]
         /\ password_change_fail_host_list' =
               Append(password_change_fail_host_list, hostnames_list[i])
ExceptionHandler(i) ==
    IF attempt[i] < max_attempts
    THEN /\ pc' = [pc EXCEPT ![i] = "alert"]
         /\ UNCHANGED password_change_fail_host_list
    ELSE /\ pc' = [pc EXCEPT ![i] = "done"]
         /\ password_change_fail_host_list' =
               Append(password_change_fail_host_list, hostnames_list[i])

\* Lines 104-105: log in with the stored credential.  The lookup raises when
\* the host has no stored credential, the login raises on a transport error
\* or when the host does not accept the credential.
ConnectWaitsForSleepers(i) ==
    /\ pc[i] = "connect"
    /\ \A k \in Threads : pc[k] \notin { "sleep", "backoff" }
    /\ connects' = [connects EXCEPT ![i] = @ + 1]
    /\ \E transport_ok \in BOOLEAN :
         LET server == hostnames_list[i] IN
         IF /\ transport_ok
            /\ server \in DOMAIN old_passwords
            /\ remote_password[server] = credential_decrypter(old_passwords[server])
         THEN /\ pc' = [pc EXCEPT ![i] = "change"]
              /\ ssh_connected' = [ssh_connected EXCEPT ![i] = TRUE]
              /\ UNCHANGED password_change_fail_host_list
         ELSE /\ ExceptionHandler(i)
              /\ UNCHANGED ssh_connected
    /\ UNCHANGED << coordVars, attempt, verify_result, ctorVars, storeVars,
                    password_change_success_host_list, mailVars >>
Connect(i) ==
    /\ pc[i] = "connect"
    /\ connects' = [connects EXCEPT ![i] = @ + 1]
    /\ \E transport_ok \in BOOLEAN :
         LET server == hostnames_list[i] IN
         IF /\ transport_ok
            /\ server \in DOMAIN old_passwords
            /\ remote_password[server] = credential_decrypter(old_passwords[server])
         THEN /\ pc' = [pc EXCEPT ![i] = "change"]
              /\ ssh_connected' = [ssh_connected EXCEPT ![i] = TRUE]
              /\ UNCHANGED password_change_fail_host_list
         ELSE /\ ExceptionHandler(i)
              /\ UNCHANGED ssh_connected
    /\ UNCHANGED << coordVars, attempt, verify_result, ctorVars, storeVars,
                    password_change_success_host_list, mailVars >>

\* Lines 108-120: run the change command with new_password (the argument,
\* which run() set to new_password_generated) written twice.  The command
\* may take effect or be rejected by the host (its output is only logged),
\* and the session may break before or after it took effect.
ChangeCredentialPersistsEarly(i) ==
    /\ pc[i] = "change"
    /\ \E took_effect \in BOOLEAN, transport_ok \in BOOLEAN :
         /\ remote_password' =
               IF took_effect
               THEN [remote_password EXCEPT ![hostnames_list[i]] = new_password_generated]
               ELSE remote_password
         /\ IF transport_ok
            THEN /\ pc' = [pc EXCEPT ![i] = "sleep"]
                 /\ UNCHANGED password_change_fail_host_list
            ELSE ExceptionHandler(i)
    /\ credential_store' =
          [credential_store EXCEPT
              ![hostnames_list[i]] = credential_encrypter(new_password_generated)]
    /\ UNCHANGED << coordVars, attempt, connects, ssh_connected, verify_result, ctorVars,
                    history_store, password_change_success_host_list, mailVars >>
ChangeCredential(i) ==
    /\ pc[i] = "change"
    /\ \E took_effect \in BOOLEAN, transport_ok \in BOOLEAN :
         /\ remote_password' =
               IF took_effect
               THEN [remote_password EXCEPT ![hostnames_list[i]] = new_password_generated]
               ELSE remote_password
         /\ IF transport_ok
            THEN /\ pc' = [pc EXCEPT ![i] = "sleep"]
                 /\ UNCHANGED password_change_fail_host_list
            ELSE ExceptionHandler(i)
    /\ UNCHANGED << coordVars, attempt, connects, ssh_connected, verify_result, ctorVars,
                    credential_store, history_store,
                    password_change_success_host_list, mailVars >>

\* Line 122: time.sleep(60) returns.
Sleep(i) ==
    /\ pc[i] = "sleep"
    /\ pc' = [pc EXCEPT ![i] = "verify"]
    /\ UNCHANGED << coordVars, attempt, connects, ssh_connected, verify_result, ctorVars,
                    storeVars, listVars, mailVars >>

\* verify_server_login (lines 241-256) as called at line 123: log in with
\* new_password_generated.  Success returns True, AuthenticationException is
\* caught and returns False, any other exception leaves the method and is
\* caught at line 133.
VerifyServerLogin(i) ==
    /\ pc[i] = "verify"
    /\ \E transport_ok \in BOOLEAN :
         IF ~transport_ok
         THEN /\ UNCHANGED verify_result
              /\ ExceptionHandler(i)
         ELSE IF remote_password[hostnames_list[i]] = new_password_generated
              THEN /\ verify_result' = [verify_result EXCEPT ![i] = "true"]
                   /\ pc' = [pc EXCEPT ![i] = "update"]
                   /\ UNCHANGED password_change_fail_host_list
              ELSE /\ verify_result' = [verify_result EXCEPT ![i] = "false"]
                   /\ pc' = [pc EXCEPT ![i] = "append_fail"]
                   /\ UNCHANGED password_change_fail_host_list
    /\ UNCHANGED << coordVars, attempt, connects, ssh_connected, ctorVars,
                    storeVars, password_change_success_host_list, mailVars >>

\* Lines 130-132: verification returned False.
AppendFailFirstHost(i) ==
    /\ pc[i] = "append_fail"
    /\ password_change_fail_host_list' =
          Append(password_change_fail_host_list, hostnames_list[1])
    /\ pc' = [pc EXCEPT ![i] = "done"]
    /\ UNCHANGED << coordVars, attempt, connects, ssh_connected, verify_result, ctorVars,
                    storeVars, password_change_success_host_list, mailVars >>
AppendFailThenRetry(i) ==
    /\ pc[i] = "append_fail"
    /\ ExceptionHandler(i)
    /\ UNCHANGED << coordVars, attempt, connects, ssh_connected, verify_result, ctorVars,
                    storeVars, password_change_success_host_list, mailVars >>
AppendFail(i) ==
    /\ pc[i] = "append_fail"
    /\ password_change_fail_host_list' =
          Append(password_change_fail_host_list, hostnames_list[i])
    /\ pc' = [pc EXCEPT ![i] = "done"]
    /\ UNCHANGED << coordVars, attempt, connects, ssh_connected, verify_result, ctorVars,
                    storeVars, password_change_success_host_list, mailVars >>

\* update_password_to_database (lines 306-330) as called at line 127: the
\* insert stores the encrypted new password; a database error is logged.
UpdatePasswordToDatabaseRaises(i) ==
    /\ pc[i] = "update"
    /\ \E db_ok \in BOOLEAN :
         IF db_ok
         THEN /\ credential_store' =
                    [credential_store EXCEPT
                        ![hostnames_list[i]] = credential_encrypter(new_password_generated)]
              /\ pc' = [pc EXCEPT ![i] = "history"]
              /\ UNCHANGED password_change_fail_host_list
         ELSE /\ UNCHANGED credential_store
              /\ ExceptionHandler(i)
    /\ UNCHANGED << coordVars, attempt, connects, ssh_connected, verify_result, ctorVars,
                    history_store, remote_password, password_change_success_host_list,
                    mailVars >>
UpdatePasswordToDatabaseRecordsSuccess(i) ==
    /\ pc[i] = "update"
    /\ \E db_ok \in BOOLEAN :
         credential_store' =
            IF db_ok
            THEN [credential_store EXCEPT
                     ![hostnames_list[i]] = credential_encrypter(new_password_generated)]
            ELSE credential_store
    /\ password_change_success_host_list' =
          Append(password_change_success_host_list, hostnames_list[i])
    /\ pc' = [pc EXCEPT ![i] = "history"]
    /\ UNCHANGED << coordVars, attempt, connects, ssh_connected, verify_result, ctorVars,
                    history_store, remote_password, password_change_fail_host_list,
                    mailVars >>
UpdatePasswordToDatabase(i) ==
    /\ pc[i] = "update"
    /\ \E db_ok \in BOOLEAN :
         credential_store' =
            IF db_ok
            THEN [credential_store EXCEPT
                     ![hostnames_list[i]] = credential_encrypter(new_password_generated)]
            ELSE credential_store
    /\ pc' = [pc EXCEPT ![i] = "history"]
    /\ UNCHANGED << coordVars, attempt, connects, ssh_connected, verify_result, ctorVars,
                    history_store, remote_password, listVars, mailVars >>

\* store_password_history (lines 258-281) as called at line 128: the insert
\* stores new_password_generated as it is; a database error is logged.
StorePasswordHistoryStoresOld(i) ==
    /\ pc[i] = "history"
    /\ \E db_ok \in BOOLEAN :
         history_store' =
            IF db_ok
            THEN history_store \cup
                   { [hostname |-> hostnames_list[i],
                      password |->
                         PlainCell(credential_decrypter(old_passwords[hostnames_list[i]]))] }
            ELSE history_store
    /\ pc' = [pc EXCEPT ![i] = "append_success"]
    /\ UNCHANGED << coordVars, attempt, connects, ssh_connected, verify_result, ctorVars,
                    credential_store, remote_password, listVars, mailVars >>
StorePasswordHistoryRaises(i) ==
    /\ pc[i] = "history"
    /\ \E db_ok \in BOOLEAN :
         IF db_ok
         THEN /\ history_store' = history_store \cup
                    { [hostname |-> hostnames_list[i],
                       password |-> PlainCell(new_password_generated)] }
              /\ pc' = [pc EXCEPT ![i] = "append_success"]
              /\ UNCHANGED password_change_fail_host_list
         ELSE /\ UNCHANGED history_store
              /\ ExceptionHandler(i)
    /\ UNCHANGED << coordVars, attempt, connects, ssh_connected, verify_result, ctorVars,
                    credential_store, remote_password, password_change_success_host_list,
                    mailVars >>
StorePasswordHistory(i) ==
    /\ pc[i] = "history"
    /\ \E db_ok \in BOOLEAN :
         history_store' =
            IF db_ok
            THEN history_store \cup
                   { [hostname |-> hostnames_list[i],
                      password |-> PlainCell(new_password_generated)] }
            ELSE history_store
    /\ pc' = [pc EXCEPT ![i] = "append_success"]
    /\ UNCHANGED << coordVars, attempt, connects, ssh_connected, verify_result, ctorVars,
                    credential_store, remote_password, listVars, mailVars >>

\* Lines 129 and 132: record the success and leave the loop.
AppendSuccessToFailList(i) ==
    /\ pc[i] = "append_success"
    /\ password_change_fail_host_list' =
          Append(password_change_fail_host_list, hostnames_list[i])
    /\ pc' = [pc EXCEPT ![i] = "done"]
    /\ UNCHANGED << coordVars, attempt, connects, ssh_connected, verify_result, ctorVars,
                    storeVars, password_change_success_host_list, mailVars >>
AppendSuccessNoBreak(i) ==
    /\ pc[i] = "append_success"
    /\ password_change_success_host_list' =
          Append(password_change_success_host_list, hostnames_list[i])
    /\ IF attempt[i] < max_attempts
       THEN /\ pc' = [pc EXCEPT ![i] = "connect"]
            /\ attempt' = [attempt EXCEPT ![i] = @ + 1]
       ELSE /\ pc' = [pc EXCEPT ![i] = "done"]
            /\ UNCHANGED attempt
    /\ UNCHANGED << coordVars, connects, ssh_connected, verify_result, ctorVars,
                    storeVars, password_change_fail_host_list, mailVars >>
AppendSuccess(i) ==
    /\ pc[i] = "append_success"
    /\ password_change_success_host_list' =
          Append(password_change_success_host_list, hostnames_list[i])
    /\ pc' = [pc EXCEPT ![i] = "done"]
    /\ UNCHANGED << coordVars, attempt, connects, ssh_connected, verify_result, ctorVars,
                    storeVars, password_change_fail_host_list, mailVars >>

\* send_alert_mail (lines 332-361) as called at line 140: one alert is
\* handed to the SMTP relay.  If the relay fails, the exception is caught
\* inside the method (line 364).
SendAlertMailRaises(i) ==
    /\ pc[i] = "alert"
    /\ alerts' = [alerts EXCEPT ![i] = @ + 1]
    /\ \E smtp_ok \in BOOLEAN :
         pc' = [pc EXCEPT ![i] = IF smtp_ok THEN "backoff" ELSE "done"]
    /\ UNCHANGED << coordVars, attempt, connects, ssh_connected, verify_result, ctorVars,
                    storeVars, listVars, report_calls, report_failed >>
SendAlertMail(i) ==
    /\ pc[i] = "alert"
    /\ alerts' = [alerts EXCEPT ![i] = @ + 1]
    /\ \E smtp_ok \in BOOLEAN :
         pc' = [pc EXCEPT ![i] = IF smtp_ok THEN "backoff" ELSE "alert_error"]
    /\ UNCHANGED << coordVars, attempt, connects, ssh_connected, verify_result, ctorVars,
                    storeVars, listVars, report_calls, report_failed >>

\* Lines 364-367: the SMTP failure is logged and send_alert_mail returns.
AlertErrorLogged(i) ==
    /\ pc[i] = "alert_error"
    /\ pc' = [pc EXCEPT ![i] = "backoff"]
    /\ UNCHANGED << coordVars, attempt, connects, ssh_connected, verify_result, ctorVars,
                    storeVars, listVars, mailVars >>

\* Line 141 and the next iteration of line 101: time.sleep(1200) returns.
Backoff(i) ==
    /\ pc[i] = "backoff"
    /\ attempt' = [attempt EXCEPT ![i] = @ + 1]
    /\ pc' = [pc EXCEPT ![i] = "connect"]
    /\ UNCHANGED << coordVars, connects, ssh_connected, verify_result, ctorVars,
                    storeVars, listVars, mailVars >>

Worker(i) ==
    \/ Connect(i)
    \/ ChangeCredential(i)
    \/ Sleep(i)
    \/ VerifyServerLogin(i)
    \/ AppendFail(i)
    \/ UpdatePasswordToDatabase(i)
    \/ StorePasswordHistory(i)
    \/ AppendSuccess(i)
    \/ SendAlertMail(i)
    \/ AlertErrorLogged(i)
    \/ Backoff(i)

Next ==
    \/ StartThread
    \/ BeginJoin
    \/ JoinThread
    \/ EndJoin
    \/ SendMail
    \/ \E i \in Threads : Worker(i)

Spec == Init /\ [][Next]_vars


\* The scheduling the run relies on: the main thread and every started
\* thread keep running, and every call and timer they wait for returns.
Fairness ==
    /\ WF_vars(StartThread)
    /\ WF_vars(BeginJoin)
    /\ WF_vars(JoinThread)
    /\ WF_vars(EndJoin)
    /\ WF_vars(SendMail)
    /\ \A i \in Hosts : WF_vars(Worker(i))

SpecFair == Init /\ [][Next]_vars /\ Fairness

\* The whole program, __main__: Rotation() followed by run(), for a hosts file
\* of at most one line (several hosts are the matter of Spec).
InitMain ==
    /\ InitConstruct
    /\ Len(hostnames_list) <= 1

NextMain ==
    \/ NextConstruct
    \/ Next

SpecMain == InitMain /\ [][NextMain]_vars

\* ------------------------------------------------------------ properties
\* The host of thread i, and its place in the two result lists.
HostOf(i) == hostnames_list[i]
InSuccess(i) == HostOf(i) \in Range(password_change_success_host_list)
InFail(i) == HostOf(i) \in Range(password_change_fail_host_list)

\* run() is at or past the call of send_mail.
Reporting == cpc \in { "send_mail", "done" }

\* The positions between a successful verification and the end of the thread.
AfterVerifyTrue == { "update", "history", "append_success", "done" }

C2_ReportOnceAfterJoin ==
    /\ report_calls = (IF cpc = "done" THEN 1 ELSE 0)
    /\ (Reporting \/ report_calls > 0) =>
          /\ started = Len(hostnames_list)
          /\ \A i \in Threads : pc[i] = "done"

C2_Witness ==
    /\ cpc = "done"
    /\ report_calls = 1
    /\ Len(hostnames_list) = NumHosts
    /\ \E i \in Threads : alerts[i] > 0

\* C3: a worker whose login with the stored credential failed on every
\* attempt has made exactly max_attempts such attempts when it ends, its host
\* is in the failure list, and exactly max_attempts - 1 alerts were sent for it.
C3_ConnectAlwaysFails ==
    \A i \in Threads :
        (pc[i] = "done" /\ ~ssh_connected[i]) =>
            /\ connects[i] = max_attempts
            /\ alerts[i] = max_attempts - 1
            /\ InFail(i)
            /\ ~InSuccess(i)

C3_Witness ==
    \E i \in Threads :
        /\ pc[i] = "done"
        /\ ~ssh_connected[i]
        /\ old_passwords # << >>
        /\ InFail(i)

\* C4: a worker whose verification login was refused (verify_server_login
\* returned False) fails at once: it is never in a retry position afterwards,
\* no alert was sent and no further login was tried for that failure (the
\* counts are those of the attempt it was in), and it ends in the failure list.
C4_VerifyRefusedIsTerminal ==
    \A i \in Threads :
        verify_result[i] = "false" =>
            /\ pc[i] \in { "append_fail", "done" }
            /\ alerts[i] = attempt[i] - 1
            /\ connects[i] = attempt[i]
            /\ ~InSuccess(i)
            /\ pc[i] = "done" => InFail(i)

C4_Witness ==
    \E i \in Threads :
        /\ verify_result[i] = "false"
        /\ pc[i] = "done"
        /\ attempt[i] = 1
        /\ attempt[i] < max_attempts
        /\ alerts[i] = 0

\* C5: a worker whose login, change and verification succeeded on the first
\* attempt ends with its host exactly once in the success list, not in the
\* failure list, and with no alert sent for it.
C5_FirstTrySuccess ==
    \A i \in Threads :
        (attempt[i] = 1 /\ verify_result[i] = "true") =>
            /\ pc[i] \in AfterVerifyTrue
            /\ alerts[i] = 0
            /\ ~InFail(i)
            /\ Count(HostOf(i), password_change_success_host_list) =
                  (IF pc[i] = "done" THEN 1 ELSE 0)

C5_Witness ==
    \E i \in Threads :
        /\ attempt[i] = 1
        /\ verify_result[i] = "true"
        /\ pc[i] = "done"
        /\ InSuccess(i)

\* C6: the password the constructor settles on is never one of the history
\* snapshot taken at the start of generate_random_password, nor the plaintext
\* of any row of the history table.
C6_FreshPassword ==
    new_password_generated # NoPassword =>
        /\ new_password_generated \notin root_pass_history_list
        /\ \A row \in history_store :
              credential_decrypter(row.password) # new_password_generated

C6_Witness ==
    /\ cpc = "spawn"
    /\ new_password_generated # NoPassword
    /\ Cardinality(root_pass_history_list) = Cardinality(Strings(password_length)) - 1

\* C7: once the verification login has succeeded, a failed write to the
\* credential table or to the history table changes nothing of the outcome:
\* the worker goes on to the success list, never to the failure list or to a
\* retry, and no alert is sent because of it.
C7_PersistenceFailureKeepsSuccess ==
    \A i \in Threads :
        verify_result[i] = "true" =>
            /\ pc[i] \in AfterVerifyTrue
            /\ alerts[i] = attempt[i] - 1
            /\ ~InFail(i)
            /\ pc[i] = "done" => InSuccess(i)

C7_Witness ==
    \E i \in Threads :
        /\ pc[i] = "done"
        /\ InSuccess(i)
        /\ credential_store[HostOf(i)] # credential_encrypter(new_password_generated)
        /\ \A row \in history_store : row.hostname # HostOf(i)

C9_NoRetryFromVerify ==
    [][ \A i \in Hosts :
            pc[i] \in { "verify", "update", "history", "append_success", "append_fail" }
                => pc'[i] \notin { "alert", "connect" }
      ]_vars

\* C9 as amended: once the verification login has returned (accepted or
\* refused) the worker never goes back to a retry; a worker in a retry
\* position has no verification result.  Only a verification login that ends
\* in an error other than a refusal is handled as a retry.
C9_NoRetryAfterVerifyReturned ==
    \A i \in Threads :
        /\ verify_result[i] # "none" =>
              pc[i] \in { "update", "history", "append_success", "append_fail", "done" }
        /\ pc[i] \in { "alert", "alert_error", "backoff", "connect", "change",
                       "sleep", "verify" } => verify_result[i] = "none"

C9_Witness ==
    \E i \in Threads :
        /\ verify_result[i] # "none"
        /\ pc[i] = "done"
        /\ attempt[i] < max_attempts
        /\ \E j \in Threads : pc[j] = "backoff" /\ ssh_connected[j]

\* C10: once a worker has recorded its host in the success or failure list it
\* takes no further step: its position, attempt, login and alert counts stay
\* as they are, the stores keep what they hold for the host, and the number of
\* times the host is in each list stays the same.
C10_TerminalIsFinal ==
    [][ \A i \in Threads :
            (InSuccess(i) \/ InFail(i)) =>
                /\ pc[i] = "done"
                /\ pc'[i] = "done"
                /\ attempt'[i] = attempt[i]
                /\ connects'[i] = connects[i]
                /\ alerts'[i] = alerts[i]
                /\ verify_result'[i] = verify_result[i]
                /\ credential_store'[HostOf(i)] = credential_store[HostOf(i)]
                /\ remote_password'[HostOf(i)] = remote_password[HostOf(i)]
                /\ { row \in history_store' : row.hostname = HostOf(i) } =
                      { row \in history_store : row.hostname = HostOf(i) }
                /\ Count(HostOf(i), password_change_success_host_list') =
                      Count(HostOf(i), password_change_success_host_list)
                /\ Count(HostOf(i), password_change_fail_host_list') =
                      Count(HostOf(i), password_change_fail_host_list)
      ]_vars

C10_Witness ==
    \E i, j \in Threads :
        /\ i # j
        /\ InSuccess(i)
        /\ pc[j] = "append_fail"
        /\ Len(password_change_fail_host_list) = 0


\* C11: every worker that has started reaches its end, within max_attempts
\* attempts, when every call and timer returns; the join loop then completes
\* and the report is sent.
C11_Termination ==
    /\ [](\A i \in Hosts : attempt[i] <= max_attempts)
    /\ \A i \in Hosts : [](pc[i] # "idle" => <>(pc[i] = "done"))
    /\ <>(cpc = "done" /\ report_calls = 1)

C11_Witness ==
    /\ cpc = "done"
    /\ report_calls = 1
    /\ \E i \in Threads : attempt[i] = max_attempts /\ InFail(i)
    /\ \E i \in Threads : InSuccess(i)


\* Nothing of run() has happened: no thread started, no login tried, no
\* alert or report sent, no row written to either table, no host recorded.
NothingRun ==
    /\ started = 0
    /\ joined = 0
    /\ \A i \in Hosts : pc[i] = "idle" /\ connects[i] = 0 /\ alerts[i] = 0
    /\ report_calls = 0
    /\ \A h \in Hosts :
          /\ credential_store[h] = credential_encrypter(OldRootPassword)
          /\ remote_password[h] = OldRootPassword
    /\ \A row \in history_store : row.hostname = 0
    /\ password_change_success_host_list = << >>
    /\ password_change_fail_host_list = << >>

\* C12: a failure of the constructor (configuration or keys missing, history
\* snapshot not obtained) ends the program before any worker is started: in
\* such a run there is no login, no store write, no alert and no report.  The
\* same holds as long as the constructor has not returned.
C12_StartupFailureAborts ==
    cpc \in { "aborted", "configure", "get_old_password", "get_password_history",
              "draw", "check" } => NothingRun

C12_Witness ==
    /\ cpc = "aborted"
    /\ old_passwords # << >>
    /\ Len(hostnames_list) = 1
    /\ history_store # {}


\* C13: the password generate_random_password returns has exactly the
\* requested length, and each of its characters is one of the alphabet.
C13_LengthAndAlphabet ==
    new_password_generated # NoPassword =>
        /\ Len(new_password_generated) = password_length
        /\ \A k \in 1..Len(new_password_generated) :
              new_password_generated[k] \in characters

C13_Witness ==
    /\ cpc = "spawn"
    /\ Len(new_password_generated) = password_length
    /\ root_pass_history_list = {}


\* C14: one alert per retry and none for the last attempt.  The attempt
\* count never exceeds max_attempts; an alert is sent only with attempts
\* left, and it has been sent when the backoff before the next attempt
\* begins; everywhere else, and when the worker has ended, the alerts sent
\* for the host are the attempts made minus one.
C14_OneAlertPerRetry ==
    \A i \in Threads :
        /\ attempt[i] <= max_attempts
        /\ pc[i] \in { "alert", "alert_error", "backoff" } => attempt[i] < max_attempts
        /\ pc[i] \in { "alert_error", "backoff" } => alerts[i] = attempt[i]
        /\ pc[i] \notin { "idle", "alert_error", "backoff" } => alerts[i] = attempt[i] - 1
        /\ pc[i] = "done" => connects[i] = attempt[i]

C14_Witness ==
    \E i, j \in Threads :
        /\ pc[i] = "done"
        /\ attempt[i] = max_attempts
        /\ alerts[i] = max_attempts - 1
        /\ InSuccess(i)
        /\ pc[j] = "backoff"
        /\ alerts[j] = attempt[j]


\* Rows of the history table written by this batch, and those it found.
BatchRows == { row \in history_store : row.hostname # 0 }
EarlierRows == { row \in history_store : row.hostname = 0 }

\* C15: one password for the whole batch.  Every host holds either the
\* password it had or new_password_generated; every credential written and
\* every history row appended by the batch carries new_password_generated;
\* so every row the history table held at the start differs in its password
\* from every row appended by the batch.
C15_OneSharedSecret ==
    /\ new_password_generated \notin root_pass_history_list
    /\ \A h \in Hosts :
          /\ remote_password[h] \in { OldRootPassword, new_password_generated }
          /\ credential_store[h] \in { credential_encrypter(OldRootPassword),
                                       credential_encrypter(new_password_generated) }
    /\ \A row \in BatchRows :
          /\ row.password.txt = new_password_generated
          /\ \A earlier \in EarlierRows : earlier.password.txt # row.password.txt

C15_Witness ==
    /\ Cardinality(BatchRows) = NumHosts
    /\ EarlierRows # {}
    /\ \A h \in Hosts :
          /\ remote_password[h] = new_password_generated
          /\ credential_store[h] = credential_encrypter(new_password_generated)


C17_WorkersIsolated ==
    /\ [](\A i \in Threads :
            pc[i] = "done" => (InSuccess(i) <=> verify_result[i] = "true")
                              /\ (InFail(i) <=> verify_result[i] # "true"))
    /\ [][ \A i \in Threads :
              pc'[i] = pc[i] =>
                  /\ attempt'[i] = attempt[i]
                  /\ connects'[i] = connects[i]
                  /\ alerts'[i] = alerts[i]
                  /\ ssh_connected'[i] = ssh_connected[i]
                  /\ verify_result'[i] = verify_result[i]
                  /\ remote_password'[HostOf(i)] = remote_password[HostOf(i)]
                  /\ credential_store'[HostOf(i)] = credential_store[HostOf(i)]
                  /\ { row \in history_store' : row.hostname = HostOf(i) } =
                        { row \in history_store : row.hostname = HostOf(i) }
                  /\ Count(HostOf(i), password_change_success_host_list') =
                        Count(HostOf(i), password_change_success_host_list)
                  /\ Count(HostOf(i), password_change_fail_host_list') =
                        Count(HostOf(i), password_change_fail_host_list)
         ]_vars

C17_Witness ==
    \E i, j \in Threads :
        /\ i # j
        /\ pc[i] = "done" /\ InSuccess(i) /\ attempt[i] = 1
        /\ pc[j] = "done" /\ InFail(j) /\ attempt[j] = max_attempts


\* C18: a sleep or a backoff suspends only the worker in it.  While a worker
\* sleeps or backs off, every other worker that has started and not ended
\* can take its next step and the main thread can go on starting threads;
\* and the main thread can move on through the joins to the report as soon
\* as the threads it waits for have ended, whatever else is the case.
C18_SleepBlocksOnlyItself ==
    /\ \A i \in Threads :
          pc[i] \in { "sleep", "backoff" } =>
              /\ \A j \in Threads \ {i} :
                    pc[j] \notin { "idle", "done" } => ENABLED Worker(j)
              /\ cpc = "spawn" => ENABLED (StartThread \/ BeginJoin)
    /\ cpc = "join" =>
          (ENABLED (JoinThread \/ EndJoin)
              <=> (joined = Len(hostnames_list) \/ pc[joined + 1] = "done"))
    /\ cpc = "send_mail" => ENABLED SendMail

C18_Witness ==
    \E i, j \in Threads :
        /\ i # j
        /\ pc[i] = "backoff"
        /\ pc[j] = "connect"
        /\ cpc = "join"
        /\ ENABLED Worker(j)


\* C19: the loop of generate_random_password draws again exactly when the
\* candidate is in the history snapshot and returns the candidate exactly
\* when it is not; with a string of the length left unused it returns at some
\* point, and with none left it never returns.
C19_RedrawUntilUnused ==
    /\ [][ cpc = "check" =>
              /\ cpc' = "spawn" <=> random_pass \notin root_pass_history_list
              /\ cpc' = "draw" <=> random_pass \in root_pass_history_list
              /\ cpc' = "spawn" => new_password_generated' = random_pass
         ]_vars
    /\ []((cpc = "draw" /\ GenerateResults(root_pass_history_list) # {})
             => <>(cpc = "spawn"))
    /\ [](cpc = "spawn" => GenerateResults(root_pass_history_list) # {})

C19_Witness ==
    /\ cpc = "check"
    /\ random_pass \in root_pass_history_list
    /\ GenerateResults(root_pass_history_list) # {}


\* Neither table holds anything this batch wrote for the host of thread i.
NothingStoredFor(i) ==
    /\ credential_store[HostOf(i)] = credential_encrypter(OldRootPassword)
    /\ \A row \in BatchRows : row.hostname # HostOf(i)

\* C20 as stated: for every host in the failure list and for every host whose
\* worker has not ended, neither table holds an entry written by this batch.
C20_NothingStoredUntilTerminal ==
    \A i \in Threads :
        (InFail(i) \/ pc[i] # "done") => NothingStoredFor(i)

\* C20 as amended: the tables are written for a host only after a
\* verification login with the new password has succeeded for it; for every
\* host in the failure list and for every host whose verification login has
\* not succeeded, neither table holds an entry written by this batch.
C20_NothingStoredBeforeVerify ==
    \A i \in Threads :
        (InFail(i) \/ verify_result[i] # "true") => NothingStoredFor(i)

C20_Witness ==
    \E i, j \in Threads :
        /\ InFail(i)
        /\ remote_password[HostOf(i)] = new_password_generated
        /\ NothingStoredFor(i)
        /\ pc[j] = "append_success"
        /\ ~NothingStoredFor(j)


\* The Credential Store write of every host in the success list was
\* acknowledged: the row of that host holds the new secret, encrypted.
StoreWritesSucceeded ==
    \A i \in Threads :
        InSuccess(i) =>
            credential_store[HostOf(i)] = credential_encrypter(new_password_generated)

\* C21: when the batch is finalized and the store writes succeeded, a host in
\* the success list accepts the new secret and the store records the new
\* secret for it, and a host in the failure list still accepts the credential
\* that the store holds for it.
C21_StoreAgreesWithHosts ==
    (Reporting /\ StoreWritesSucceeded) =>
        \A i \in Threads :
            /\ InSuccess(i) =>
                  /\ remote_password[HostOf(i)] = new_password_generated
                  /\ credential_decrypter(credential_store[HostOf(i)])
                        = new_password_generated
            /\ InFail(i) =>
                  remote_password[HostOf(i)]
                     = credential_decrypter(credential_store[HostOf(i)])


\* C22: on the success path the worker attempts the Credential Store write,
\* then the History Store append, and only then records its host in the
\* success list.  A host is in the success list only when its worker is past
\* both calls, so both have completed whenever the report is sent; the
\* credential row of a host changes only in the write step, its history rows
\* only in the append step that follows it, and the host enters the success
\* list only in the step after that.
C22_PersistThenRecord ==
    /\ [](\A i \in Threads : InSuccess(i) => pc[i] = "done")
    /\ [][ \A i \in Threads :
              /\ (pc[i] = "update" /\ pc'[i] # pc[i]) => pc'[i] = "history"
              /\ (pc[i] = "history" /\ pc'[i] # pc[i]) => pc'[i] = "append_success"
              /\ (pc'[i] = "append_success" /\ pc'[i] # pc[i]) => pc[i] = "history"
              /\ credential_store'[HostOf(i)] # credential_store[HostOf(i)]
                    => pc[i] = "update"
              /\ { row \in history_store' : row.hostname = HostOf(i) } #
                    { row \in history_store : row.hostname = HostOf(i) }
                    => pc[i] = "history"
              /\ Count(HostOf(i), password_change_success_host_list') #
                    Count(HostOf(i), password_change_success_host_list)
                    => pc[i] = "append_success" /\ pc'[i] = "done"
         ]_vars

C22_Witness ==
    /\ cpc = "send_mail"
    /\ \E i \in Threads :
         /\ InSuccess(i)
         /\ pc[i] = "done"
         /\ credential_store[HostOf(i)] = credential_encrypter(OldRootPassword)
         /\ \E row \in BatchRows : row.hostname = HostOf(i)

====
